---- MODULE Spec2Model ----
(***************************************************************************)
(* A model of gnucashxml.py: the parser of GNU Cash XML files.             *)
(*                                                                         *)
(*   SpecNum    _parse_number applied to "n/d" tokens (decimal.Decimal     *)
(*              arithmetic, default context).                              *)
(*   SpecSlots  _slots_from_tree applied to slot containers.               *)
(*   Spec       _book_from_tree applied to a gnc:book node, followed by    *)
(*              Account.walk / Book.walk / Book.find_account on the Book   *)
(*              it returns.                                                *)
(*                                                                         *)
(* Python objects are modelled by identity: the object built from the i-th *)
(* node of its kind is object i.  Lists are sequences of object ids.       *)
(***************************************************************************)
EXTENDS Integers, Sequences, FiniteSets, TLC

VARIABLES
    numstring,   \* _parse_number: the argument
    number,      \* _parse_number: what the call produced
    slottree,    \* _slots_from_tree: the argument (a container of slot nodes)
    slots,       \* _slots_from_tree: what the call produced
    tree,        \* _book_from_tree: the gnc:book node
    book,        \* what parse produced: the Book and the object graph
    gen,         \* the Account.walk generator being consumed
    found        \* what Book.find_account produced

vars == <<numstring, number, slottree, slots, tree, book, gen, found>>

\* A reference that is None (object ids start at 1).
None == 0

(***************************************************************************)
(* Sequence helpers.                                                       *)
(***************************************************************************)
Range(s) == {s[i] : i \in 1..Len(s)}

SeqsUpTo(S, n) == UNION {[1..k -> S] : k \in 0..n}

Reverse(s) == [i \in 1..Len(s) |-> s[Len(s) + 1 - i]]

RemoveAt(s, i) == [j \in 1..(Len(s) - 1) |-> IF j < i THEN s[j] ELSE s[j + 1]]

Perms(S) == {p \in [1..Cardinality(S) -> S] : \A x \in S : \E i \in DOMAIN p : p[i] = x}

Max(a, b) == IF a >= b THEN a ELSE b

(***************************************************************************)
(* decimal.Decimal, default context: 28 significant digits, ROUND_HALF_EVEN.*)
(* A Decimal is [sign, int, exp]: (-1)^sign * int * 10^exp, with int a     *)
(* sequence of digits, most significant first (the digits do not fit a     *)
(* machine integer, so they stay a sequence throughout).                   *)
(***************************************************************************)
Prec == 28

DigitChars == {"0", "1", "2", "3", "4", "5", "6", "7", "8", "9"}

DigitVal(c) ==
    CASE c = "0" -> 0 [] c = "1" -> 1 [] c = "2" -> 2 [] c = "3" -> 3
      [] c = "4" -> 4 [] c = "5" -> 5 [] c = "6" -> 6 [] c = "7" -> 7
      [] c = "8" -> 8 [] c = "9" -> 9

RECURSIVE StripLeadingZeros(_)
StripLeadingZeros(ds) ==
    IF Len(ds) > 1 /\ ds[1] = 0 THEN StripLeadingZeros(Tail(ds)) ELSE ds

\* int(str): the value of a short digit sequence
RECURSIVE IntOfDigits(_)
IntOfDigits(ds) ==
    IF ds = <<>> THEN 0
    ELSE 10 * IntOfDigits(SubSeq(ds, 1, Len(ds) - 1)) + ds[Len(ds)]

\* str(int): the digits of a natural number
RECURSIVE DigitsOfInt(_)
DigitsOfInt(n) ==
    IF n < 10 THEN <<n>> ELSE Append(DigitsOfInt(n \div 10), n % 10)

Zeros(k) == [i \in 1..k |-> 0]

\* str.split(sep) for a one-character separator
RECURSIVE StrSplit(_, _)
StrSplit(s, sep) ==
    IF \A i \in 1..Len(s) : s[i] # sep THEN <<s>>
    ELSE LET i == CHOOSE j \in 1..Len(s) :
                      s[j] = sep /\ \A k \in 1..(j - 1) : s[k] # sep
         IN <<SubSeq(s, 1, i - 1)>> \o StrSplit(SubSeq(s, i + 1, Len(s)), sep)

\* The strings Decimal(str) accepts, among those over the alphabet used here:
\* an optional sign and at least one digit.
DecimalSyntax(s) ==
    LET body == IF s # <<>> /\ s[1] = "-" THEN Tail(s) ELSE s
    IN  body # <<>> /\ \A i \in 1..Len(body) : body[i] \in DigitChars

\* Decimal(str) for an integer literal
DecimalOfStr(s) ==
    LET neg == s[1] = "-"
        body == IF neg THEN Tail(s) ELSE s
    IN  [sign |-> IF neg THEN 1 ELSE 0,
         int |-> StripLeadingZeros([i \in 1..Len(body) |-> DigitVal(body[i])]),
         exp |-> 0]

DecIsZero(x) == x.int = <<0>>

\* k more quotient digits of r / d (r < d), and the remainder left
RECURSIVE LongDiv(_, _, _)
LongDiv(r, d, k) ==
    IF k = 0 THEN [digits |-> <<>>, rem |-> r]
    ELSE LET rest == LongDiv((10 * r) % d, d, k - 1)
         IN  [digits |-> <<(10 * r) \div d>> \o rest.digits, rem |-> rest.rem]

\* coefficient + 1
RECURSIVE DigitsInc(_)
DigitsInc(ds) ==
    IF ds = <<>> THEN <<1>>
    ELSE IF ds[Len(ds)] < 9
         THEN [ds EXCEPT ![Len(ds)] = @ + 1]
         ELSE Append(DigitsInc(SubSeq(ds, 1, Len(ds) - 1)), 0)

\* Decimal._fix: round the coefficient to Prec digits, ROUND_HALF_EVEN
\* (the exponent limits Emin and Emax are far from every value here).
DecFix(x) ==
    IF DecIsZero(x) \/ Len(x.int) <= Prec THEN x
    ELSE LET kept == SubSeq(x.int, 1, Prec)
             dropped == SubSeq(x.int, Prec + 1, Len(x.int))
             restZero == \A i \in 2..Len(dropped) : dropped[i] = 0
             up == \/ dropped[1] > 5
                   \/ dropped[1] = 5 /\ ~restZero
                   \/ dropped[1] = 5 /\ restZero /\ kept[Prec] % 2 = 1
             coeff == IF up THEN DigitsInc(kept) ELSE kept
             expMin == Len(x.int) + x.exp - Prec
         IN  IF Len(coeff) > Prec
             THEN [sign |-> x.sign, int |-> SubSeq(coeff, 1, Prec), exp |-> expMin + 1]
             ELSE [sign |-> x.sign, int |-> coeff, exp |-> expMin]

\* the exact quotient is brought as close to the ideal exponent as possible
RECURSIVE DecStripToIdeal(_, _, _)
DecStripToIdeal(coeff, exp, ideal) ==
    IF exp < ideal /\ Len(coeff) > 1 /\ coeff[Len(coeff)] = 0
    THEN DecStripToIdeal(SubSeq(coeff, 1, Len(coeff) - 1), exp + 1, ideal)
    ELSE [int |-> coeff, exp |-> exp]

\* Decimal.__truediv__ (y nonzero)
DecTruediv(x, y) ==
    LET sign == IF x.sign = y.sign THEN 0 ELSE 1
    IN  IF DecIsZero(x) THEN [sign |-> sign, int |-> <<0>>, exp |-> x.exp - y.exp]
        ELSE LET shift == Len(y.int) - Len(x.int) + Prec + 1
                 op1 == IntOfDigits(x.int)
                 op2 == IntOfDigits(y.int)
                 frac == LongDiv(op1 % op2, op2, shift)
                 coeff0 == StripLeadingZeros(DigitsOfInt(op1 \div op2) \o frac.digits)
                 exp0 == x.exp - y.exp - shift
                 last == coeff0[Len(coeff0)]
                 q == IF frac.rem # 0
                      THEN [int |-> IF last % 5 = 0
                                    THEN [coeff0 EXCEPT ![Len(coeff0)] = @ + 1]
                                    ELSE coeff0,
                            exp |-> exp0]
                      ELSE DecStripToIdeal(coeff0, exp0, x.exp - y.exp)
             IN  DecFix([sign |-> sign, int |-> q.int, exp |-> q.exp])

\* digits * m for a small natural m, exactly
RECURSIVE MulCarry(_, _, _)
MulCarry(ds, m, carry) ==
    IF ds = <<>> THEN (IF carry = 0 THEN <<>> ELSE DigitsOfInt(carry))
    ELSE LET v == ds[Len(ds)] * m + carry
         IN  Append(MulCarry(SubSeq(ds, 1, Len(ds) - 1), m, v \div 10), v % 10)

DigitsTimes(ds, m) == StripLeadingZeros(<<0>> \o MulCarry(ds, m, 0))

\* Decimal.__mul__ by a Decimal with a short coefficient
DecMul(x, y) ==
    LET sign == IF x.sign = y.sign THEN 0 ELSE 1
    IN  IF DecIsZero(x) \/ DecIsZero(y)
        THEN DecFix([sign |-> sign, int |-> <<0>>, exp |-> x.exp + y.exp])
        ELSE DecFix([sign |-> sign,
                     int |-> DigitsTimes(x.int, IntOfDigits(y.int)),
                     exp |-> x.exp + y.exp])

\* Decimal.__eq__: equality of the values
RECURSIVE DecNormal(_)
DecNormal(x) ==
    IF DecIsZero(x) THEN [sign |-> 0, int |-> <<0>>, exp |-> 0]
    ELSE IF x.int[Len(x.int)] = 0
         THEN DecNormal([x EXCEPT !.int = SubSeq(x.int, 1, Len(x.int) - 1),
                                  !.exp = @ + 1])
         ELSE x

DecEq(x, y) == DecNormal(x) = DecNormal(y)

(***************************************************************************)
(* _parse_number                                                           *)
(***************************************************************************)
Raised(what) == [k |-> "raised", what |-> what]

Returned(v) == [k |-> "ok", value |-> v]

NotCalled == [k |-> "none"]

\* def _parse_number(numstring):
\*     num, denum = numstring.split("/")
\*     return decimal.Decimal(num) / decimal.Decimal(denum)
_parse_number(s) ==
    LET parts == StrSplit(s, "/")
    IN  IF Len(parts) # 2 THEN Raised("ValueError")
        ELSE IF ~DecimalSyntax(parts[1]) \/ ~DecimalSyntax(parts[2])
             THEN Raised("InvalidOperation")
             ELSE LET num == DecimalOfStr(parts[1])
                      denum == DecimalOfStr(parts[2])
                  IN  IF DecIsZero(denum)
                      THEN (IF DecIsZero(num) THEN Raised("InvalidOperation")
                            ELSE Raised("DivisionByZero"))
                      ELSE Returned(DecTruediv(num, denum))

(***************************************************************************)
(* SpecNum: _parse_number called on a token.                               *)
(***************************************************************************)
MaxTokenLen == 4

TokenChars == {"-", "0", "1", "2", "3", "6", "/", "x"}

Tokens == SeqsUpTo(TokenChars, MaxTokenLen)

NumIdle == numstring = <<>> /\ number = NotCalled

SlotsIdle == slottree = <<>> /\ slots = NotCalled

EmptyTree == [commodities |-> <<>>, accounts |-> <<>>, transactions |-> <<>>]

BookIdle == tree = EmptyTree /\ book = NotCalled /\ gen = NotCalled /\ found = NotCalled

InitNum ==
    /\ numstring \in Tokens
    /\ number = NotCalled
    /\ SlotsIdle
    /\ BookIdle

ParseNumber ==
    /\ number.k = "none"
    /\ number' = _parse_number(numstring)
    /\ UNCHANGED <<numstring, slottree, slots, tree, book, gen, found>>

NextNum == ParseNumber

SpecNum == InitNum /\ [][NextNum]_vars

\* The integer a signed run of digits denotes, and the tokens "n/d" with d # 0.
SignedInt(s) ==
    IF s[1] = "-" THEN 0 - IntOfDigits([i \in 1..(Len(s) - 1) |-> DigitVal(s[i + 1])])
    ELSE IntOfDigits([i \in 1..Len(s) |-> DigitVal(s[i])])

IsRationalToken(s) ==
    LET parts == StrSplit(s, "/")
    IN  /\ Len(parts) = 2
        /\ DecimalSyntax(parts[1])
        /\ DecimalSyntax(parts[2])
        /\ SignedInt(parts[2]) # 0

Abs(n) == IF n < 0 THEN 0 - n ELSE n

\* v * d = n, exactly (no rounding anywhere in this comparison)
ExactQuotient(v, n, d) ==
    /\ DigitsTimes(v.int \o Zeros(Max(v.exp, 0)), Abs(d))
         = StripLeadingZeros(DigitsOfInt(Abs(n)) \o Zeros(Max(0 - v.exp, 0)))
    /\ n # 0 => v.sign = (IF (n < 0) = (d < 0) THEN 0 ELSE 1)

DecOfInt(n) == [sign |-> 0, int |-> DigitsOfInt(n), exp |-> 0]

\* C1: for every token "n/d" with integers n and d, d # 0, _parse_number
\* returns a value exactly equal to the rational n/d, with no rounding; in
\* particular "6/3" gives 2 and "1/3" gives a value whose product with 3 is 1.
C1_ParseNumberExact ==
    (number.k # "none" /\ IsRationalToken(numstring)) =>
        LET parts == StrSplit(numstring, "/")
        IN  /\ number.k = "ok"
            /\ ExactQuotient(number.value, SignedInt(parts[1]), SignedInt(parts[2]))
            /\ numstring = <<"6", "/", "3">> => DecEq(number.value, DecOfInt(2))
            /\ numstring = <<"1", "/", "3">> =>
                   DecEq(DecMul(number.value, DecOfInt(3)), DecOfInt(1))

\* The tokens whose quotient has a finite decimal expansion of at most Prec
\* digits are parsed exactly (what remains of C1 on the code).
C1_TerminatingExact ==
    (number.k = "ok" /\ Len(number.value.int) < Prec) =>
        LET parts == StrSplit(numstring, "/")
        IN  ExactQuotient(number.value, SignedInt(parts[1]), SignedInt(parts[2]))

(***************************************************************************)
(* _slots_from_tree                                                        *)
(*                                                                         *)
(* A slot node is [key, type, text, gdate, tsdate, slot]: the text of its  *)
(* slot:key child (NoKey: the child is missing), the type attribute of its *)
(* slot:value child (NoAttr: no attribute), the value's text, the text of  *)
(* the value's gdate and ts:date children (Absent: no such child) and the  *)
(* value's own slot children.  A container is [node, slot]: whether the    *)
(* node exists, and its slot children in document order.                   *)
(***************************************************************************)
NoKey == ""

NoAttr == ""

Absent == <<>>

\* value.get('type', 'string')
TypeAttr(value) == IF value.type = NoAttr THEN "string" ELSE value.type

\* long(text)
long(text) ==
    IF DecimalSyntax(text) THEN Returned([t |-> "long", v |-> SignedInt(text)])
    ELSE Raised("ValueError")

\* dateutil's parse: an external collaborator, kept as a tagged value
parse_date(text) == [t |-> "datetime", v |-> text]

\* raise RuntimeError("Unknown slot type {}".format(type_))
UnknownSlotType_skipped(slotsdict, type_) == Returned(slotsdict)

UnknownSlotType(slotsdict, type_) ==
    [k |-> "raised", what |-> "RuntimeError", type |-> type_]

\* slots[key] = v
DictSet(d, key, v) == (key :> v) @@ d

RECURSIVE _slots_from_tree(_)
RECURSIVE SlotsLoop(_, _)

\* One pass of the loop body for elt, on the dict built so far.
SlotsBody(slotsdict, elt) ==
    IF elt.key = NoKey THEN Raised("AttributeError")
    ELSE
    LET key == elt.key
        type_ == TypeAttr(elt)
    IN  IF type_ = "integer" THEN
            LET r == long(elt.text)
            IN  IF r.k = "ok" THEN Returned(DictSet(slotsdict, key, r.value)) ELSE r
        ELSE IF type_ = "numeric" THEN
            LET r == _parse_number(elt.text)
            IN  IF r.k = "ok"
                THEN Returned(DictSet(slotsdict, key, [t |-> "Decimal", v |-> r.value]))
                ELSE r
        ELSE IF type_ \in {"string", "guid"} THEN
            Returned(DictSet(slotsdict, key, [t |-> "str", v |-> elt.text]))
        ELSE IF type_ = "gdate" THEN
            IF elt.gdate = Absent THEN Raised("AttributeError")
            ELSE Returned(DictSet(slotsdict, key, parse_date(elt.gdate)))
        ELSE IF type_ = "timespec" THEN
            IF elt.tsdate = Absent THEN Raised("AttributeError")
            ELSE Returned(DictSet(slotsdict, key, parse_date(elt.tsdate)))
        ELSE IF type_ = "frame" THEN
            LET r == _slots_from_tree([node |-> TRUE, slot |-> elt.slot])
            IN  IF r.k = "ok"
                THEN Returned(DictSet(slotsdict, key, [t |-> "dict", v |-> r.value]))
                ELSE r
        ELSE UnknownSlotType(slotsdict, type_)

\* for elt in tree.findall("slot"): ...
SlotsLoop(slotsdict, elts) ==
    IF elts = <<>> THEN Returned(slotsdict)
    ELSE LET r == SlotsBody(slotsdict, Head(elts))
         IN  IF r.k = "ok" THEN SlotsLoop(r.value, Tail(elts)) ELSE r

_slots_from_tree(t) ==
    IF ~t.node THEN Returned(<<>>)
    ELSE SlotsLoop(<<>>, t.slot)

(***************************************************************************)
(* SpecSlots: _slots_from_tree called on a container.                      *)
(***************************************************************************)
MaxSlots == 2

MaxDepth == 2

KeyNames == <<"a", "b", "c", "d">>

Leaf(type, text) ==
    [key |-> "a", type |-> type, text |-> text, gdate |-> Absent, tsdate |-> Absent,
     slot |-> <<>>]

LeafSlots ==
    { Leaf("integer", <<"7">>),
      Leaf("numeric", <<"1", "/", "2">>),
      Leaf("numeric", <<"5", "/", "0">>),
      Leaf("string", <<"x">>),
      Leaf("guid", <<"6">>),
      [Leaf("gdate", <<>>) EXCEPT !.gdate = <<"2", "0", "1", "2">>],
      [Leaf("timespec", <<>>) EXCEPT !.tsdate = <<"2", "0", "1", "3">>],
      Leaf(NoAttr, <<"x">>),
      Leaf("bogus", <<"x">>),
      [Leaf("string", <<"x">>) EXCEPT !.key = NoKey] }

\* The slot nodes nested at most d frames deep; a frame holds at most one slot.
RECURSIVE SlotNodes(_)
SlotNodes(d) ==
    IF d = 0 THEN LeafSlots
    ELSE LeafSlots \cup
         { [Leaf("frame", <<>>) EXCEPT !.slot = body] :
             body \in {<<>>} \cup {<<x>> : x \in SlotNodes(d - 1)} }

\* the i-th slot of a container gets the i-th key
Keyed(elts) ==
    [i \in DOMAIN elts |->
        IF elts[i].key = NoKey THEN elts[i] ELSE [elts[i] EXCEPT !.key = KeyNames[i]]]

SlotTrees ==
    {[node |-> FALSE, slot |-> <<>>]} \cup
    {[node |-> TRUE, slot |-> Keyed(elts)] : elts \in SeqsUpTo(SlotNodes(MaxDepth), MaxSlots)}

InitSlots ==
    /\ slottree \in SlotTrees
    /\ slots = NotCalled
    /\ NumIdle
    /\ BookIdle

DecodeSlots ==
    /\ slots.k = "none"
    /\ slots' = _slots_from_tree(slottree)
    /\ UNCHANGED <<numstring, number, slottree, tree, book, gen, found>>

NextSlots == DecodeSlots

SpecSlots == InitSlots /\ [][NextSlots]_vars

SlotTypes == {"integer", "numeric", "string", "guid", "gdate", "timespec", "frame"}

\* Some slot, at the top level or inside nested frames, has an unknown type.
RECURSIVE HasUnknownType(_)
HasUnknownType(elts) ==
    \E i \in DOMAIN elts :
        \/ TypeAttr(elts[i]) \notin SlotTypes
        \/ TypeAttr(elts[i]) = "frame" /\ HasUnknownType(elts[i].slot)

\* What stops a depth-first, document-order reading of the slots first:
\* "type" (a slot of unknown type), "other" (a slot that cannot be read for
\* another reason) or "none".
RECURSIVE FirstFailure(_)
FirstFailure(elts) ==
    IF elts = <<>> THEN "none"
    ELSE LET e == Head(elts)
             ty == TypeAttr(e)
             here ==
                 IF e.key = NoKey THEN "other"
                 ELSE IF ty \notin SlotTypes THEN "type"
                 ELSE IF ty = "frame" THEN FirstFailure(e.slot)
                 ELSE IF ty = "integer" /\ ~DecimalSyntax(e.text) THEN "other"
                 ELSE IF ty = "numeric" /\ ~IsRationalToken(e.text) THEN "other"
                 ELSE IF ty = "gdate" /\ e.gdate = Absent THEN "other"
                 ELSE IF ty = "timespec" /\ e.tsdate = Absent THEN "other"
                 ELSE "none"
         IN  IF here # "none" THEN here ELSE FirstFailure(Tail(elts))

IsUnknownSlotTypeError(r) == r.k = "raised" /\ r.what = "RuntimeError"

NoAttrIsString ==
    slots.k = "ok" =>
        \A i \in DOMAIN slottree.slot :
            (slottree.slot[i].type = NoAttr /\ slottree.slot[i].key # NoKey) =>
                /\ slottree.slot[i].key \in DOMAIN slots.value
                /\ slots.value[slottree.slot[i].key] = [t |-> "str", v |-> slottree.slot[i].text]

KeyError(key) == [k |-> "raised", what |-> "KeyError", key |-> key]

\* Commodity(name=name, space=space)
_commodity_from_tree(node) == [name |-> node.id, space |-> node.space]

\* commoditydict[(comm.space, comm.name)] = comm
CommoditydictStore_keepfirst(commoditydict, comm, c) ==
    IF <<comm.space, comm.name>> \in DOMAIN commoditydict THEN commoditydict
    ELSE DictSet(commoditydict, <<comm.space, comm.name>>, c)

CommoditydictStore(commoditydict, comm, c) ==
    DictSet(commoditydict, <<comm.space, comm.name>>, c)

\* for child in tree.findall('gnc:commodity'): ...
RECURSIVE CommodityLoop(_, _)
CommodityLoop(st, nodes) ==
    IF nodes = <<>> THEN st
    ELSE LET comm == _commodity_from_tree(Head(nodes))
             c == Len(st.commodity) + 1
         IN  CommodityLoop(
                 [st EXCEPT !.commodity = Append(@, comm),
                            !.commodities = Append(@, c),
                            !.commoditydict = CommoditydictStore(@, comm, c)],
                 Tail(nodes))

\* _account_from_tree: (parent_guid, Account(...)), or the KeyError of the
\* commodity lookup
_account_from_tree(node, commoditydict) ==
    IF node.type = "ROOT"
    THEN Returned([parent_guid |-> "",
                   acc |-> [name |-> node.name, guid |-> node.guid, actype |-> node.type,
                            parent |-> None, children |-> <<>>, commodity |-> None,
                            splits |-> <<>>]])
    ELSE IF <<node.space, node.id>> \notin DOMAIN commoditydict
         THEN KeyError(<<node.space, node.id>>)
         ELSE Returned([parent_guid |-> node.parent,
                        acc |-> [name |-> node.name, guid |-> node.guid,
                                 actype |-> node.type, parent |-> None,
                                 children |-> <<>>,
                                 commodity |-> commoditydict[<<node.space, node.id>>],
                                 splits |-> <<>>]])

\* for child in tree.findall('gnc:account'): ...
RECURSIVE AccountLoop(_, _)
AccountLoop(st, nodes) ==
    IF nodes = <<>> THEN st
    ELSE LET r == _account_from_tree(Head(nodes), st.commoditydict)
             a == Len(st.account) + 1
         IN  IF r.k # "ok" THEN r
             ELSE AccountLoop(
                      [st EXCEPT !.account = Append(@, r.value.acc),
                                 !.root_account =
                                     IF r.value.acc.actype = "ROOT" THEN a ELSE @,
                                 !.accountdict = DictSet(@, r.value.acc.guid, a),
                                 !.parentdict =
                                     DictSet(@, r.value.acc.guid, r.value.parent_guid)],
                      Tail(nodes))

\* acc.parent = parent; parent.children.append(acc)
LinkAccount_noappend(account, a, parent) ==
    [account EXCEPT ![a].parent = parent]

LinkAccount_noparent(account, a, parent) ==
    [account EXCEPT ![parent].children = Append(@, a)]

LinkAccount(account, a, parent) ==
    [account EXCEPT ![a].parent = parent, ![parent].children = Append(@, a)]

\* for acc in accountdict.values(): ...   (order: the iteration order of the
\* dict's keys, which the language leaves open)
RECURSIVE LinkLoop(_, _)
LinkLoop(st, order) ==
    IF order = <<>> THEN st
    ELSE LET a == st.accountdict[Head(order)]
             acc == st.account[a]
         IN  IF acc.parent = None /\ acc.actype # "ROOT"
             THEN IF st.parentdict[acc.guid] \notin DOMAIN st.accountdict
                  THEN KeyError(st.parentdict[acc.guid])
                  ELSE LinkLoop(
                           [st EXCEPT !.account =
                               LinkAccount(@, a, st.accountdict[st.parentdict[acc.guid]])],
                           Tail(order))
             ELSE LinkLoop(st, Tail(order))

\* account.splits.append(split)
RegisterSplit_skipped(account, a, s) == account

RegisterSplit(account, a, s) == [account EXCEPT ![a].splits = Append(@, s)]

\* _split_from_tree: the graph with the new Split, registered with its
\* account, or the KeyError of the account lookup
_split_from_tree(st, node, transaction) ==
    IF node.account \notin DOMAIN st.accountdict THEN KeyError(node.account)
    ELSE LET a == st.accountdict[node.account]
             s == Len(st.split) + 1
         IN  Returned([st EXCEPT !.split = Append(@, [account |-> a,
                                                      transaction |-> transaction]),
                                 !.account = RegisterSplit(@, a, s)])

\* for subtree in tree.findall("trn:splits/trn:split"): ...
RECURSIVE SplitLoop(_, _, _)
SplitLoop(st, nodes, t) ==
    IF nodes = <<>> THEN st
    ELSE LET r == _split_from_tree(st, Head(nodes), t)
         IN  IF r.k # "ok" THEN r
             ELSE SplitLoop(
                      [r.value EXCEPT !.transaction[t].splits =
                                          Append(@, Len(r.value.split))],
                      Tail(nodes), t)

\* _transaction_from_tree: the graph with the new Transaction and its splits
_transaction_from_tree(st, node) ==
    IF <<node.space, node.id>> \notin DOMAIN st.commoditydict
    THEN KeyError(<<node.space, node.id>>)
    ELSE LET t == Len(st.transaction) + 1
         IN  SplitLoop(
                 [st EXCEPT !.transaction =
                     Append(@, [currency |-> st.commoditydict[<<node.space, node.id>>],
                                splits |-> <<>>])],
                 node.splits, t)

\* for child in tree.findall('gnc:transaction'): transactions.append(...)
RECURSIVE TransactionLoop(_, _)
TransactionLoop(st, nodes) ==
    IF nodes = <<>> THEN st
    ELSE LET r == _transaction_from_tree(st, Head(nodes))
         IN  IF r.k # "ok" THEN r
             ELSE TransactionLoop(
                      [r EXCEPT !.transactions = Append(@, Len(r.transaction))],
                      Tail(nodes))

\* Nothing built yet.
NewGraph ==
    [k |-> "ok", commodity |-> <<>>, commodities |-> <<>>, commoditydict |-> <<>>,
     account |-> <<>>, root_account |-> None, accountdict |-> <<>>,
     parentdict |-> <<>>, transaction |-> <<>>, transactions |-> <<>>, split |-> <<>>]

\* _book_from_tree, the dict of accounts being iterated in the given order
_book_from_tree(t, order) ==
    LET c == CommodityLoop(NewGraph, t.commodities)
        a == AccountLoop(c, t.accounts)
    IN  IF a.k # "ok" THEN a
        ELSE LET l == LinkLoop(a, order)
             IN  IF l.k # "ok" THEN l
                 ELSE TransactionLoop(l, t.transactions)

(***************************************************************************)
(* Account.walk, Book.walk, Book.find_account                              *)
(*                                                                         *)
(* The generator is [k, self, accounts, acc, children, alias, yielded,     *)
(* mods]: k is "created" (walk() was called, its body has not run),        *)
(* "suspended" (at the yield) or "done"; accounts, acc and children are    *)
(* the locals of walk; alias says which list object the local children    *)
(* names: None for a list of its own, an account for that account's        *)
(* children list.  yielded and mods record the accounts yielded so far and *)
(* how often the caller changed a yielded list.                            *)
(***************************************************************************)
\* children = list(acc.children): a new list, which is no account's own
ListCopy_aliased(a) == a

ListCopy(a) == None

\* The list the local children names.
ChildrenList(account, g) ==
    IF g.alias = None THEN g.children ELSE account[g.alias].children

\* accounts.extend(children)
Extend_front(accounts, children) == children \o accounts

Extend(accounts, children) == accounts \o children

\* One next() on the generator: from its creation or from the yield up to the
\* next yield, or to the end of the loop.
GenNext(account, g) ==
    LET accounts == IF g.k = "created" THEN <<g.self>>
                    ELSE Extend(g.accounts, ChildrenList(account, g))
    IN  IF accounts = <<>> THEN [g EXCEPT !.k = "done", !.accounts = <<>>]
        ELSE LET acc == Head(accounts)
             IN  [g EXCEPT !.k = "suspended",
                           !.accounts = Tail(accounts),
                           !.acc = acc,
                           !.children = account[acc].children,
                           !.alias = ListCopy(acc),
                           !.yielded = Append(@, acc)]

\* self.walk()
NewGenerator(a) ==
    [k |-> "created", self |-> a, accounts |-> <<>>, acc |-> None, children |-> <<>>,
     alias |-> None, yielded |-> <<>>, mods |-> 0]

\* if account.name == name
NameMatches_always(acc, name) == TRUE

NameMatches(acc, name) == acc.name = name

\* for account, children, splits in self.walk(): ...
RECURSIVE FindLoop(_, _, _)
FindLoop(account, g, name) ==
    LET g2 == GenNext(account, g)
    IN  IF g2.k = "done" THEN None
        ELSE IF NameMatches(account[g2.acc], name) THEN g2.acc
        ELSE FindLoop(account, g2, name)

\* Book.find_account; Book.walk is self.root_account.walk()
find_account(b, name) ==
    IF b.root_account = None THEN [k |-> "raised", what |-> "AttributeError", name |-> name]
    ELSE [k |-> "ok", name |-> name,
          value |-> FindLoop(b.account, NewGenerator(b.root_account), name)]

(***************************************************************************)
(* Spec: a gnc:book node is parsed; the Book is then walked by a caller,   *)
(* who may change the lists it is handed, or searched by name.             *)
(***************************************************************************)
MaxAccounts == 3

MaxTreeAccounts == 4

MaxCommodities == 2

MaxTransactions == 2

MaxSplits == 2

MaxYield == 6

MaxMods == 1

GuidNames == <<"g1", "g2", "g3", "g4", "g5", "g6", "g7", "g8">>

LinkGuids == {"g1", "g2"}

UnknownGuid == "g0"

USD == <<"ISO4217", "USD">>

EUR == <<"ISO4217", "EUR">>

Pairs == {USD, EUR}

CommodityNode(pair) == [space |-> pair[1], id |-> pair[2]]

AccountName(i) == IF i % 2 = 1 THEN "Assets" ELSE "Income"

\* The i-th account node; p is "ROOT" or the parent's guid.
AccountNode(i, guid, p, pair) ==
    [name |-> AccountName(i), guid |-> guid,
     type |-> IF p = "ROOT" THEN "ROOT" ELSE "BANK",
     parent |-> IF p = "ROOT" THEN "" ELSE p,
     space |-> pair[1], id |-> pair[2]]

\* Any accounts: guids may repeat, parents may be missing, cyclic or forward,
\* ROOT accounts may be none or several.
LinkTrees ==
    { [commodities |-> <<CommodityNode(USD)>>,
       accounts |-> [i \in DOMAIN f |-> AccountNode(i, f[i][1], f[i][2], USD)],
       transactions |-> <<>>] :
        f \in SeqsUpTo(LinkGuids \X ({"ROOT", UnknownGuid} \cup LinkGuids), MaxAccounts) }

RECURSIVE Climbs(_, _, _)
Climbs(par, i, fuel) ==
    IF par[i] = 0 THEN TRUE
    ELSE IF fuel = 0 THEN FALSE
    ELSE Climbs(par, par[i], fuel - 1)

\* Account trees: distinct guids, one ROOT, every other account under it, in
\* every document order.
TreeTrees ==
    { [commodities |-> <<CommodityNode(USD)>>,
       accounts |-> [i \in DOMAIN par |->
                        AccountNode(i, GuidNames[i],
                                    IF par[i] = 0 THEN "ROOT" ELSE GuidNames[par[i]], USD)],
       transactions |-> <<>>] :
        par \in { q \in UNION {[1..n -> 0..n] : n \in 1..MaxTreeAccounts} :
                    /\ Cardinality({i \in DOMAIN q : q[i] = 0}) = 1
                    /\ \A i \in DOMAIN q : Climbs(q, i, Len(q)) } }

ThreeAccounts(pairA, pairB) ==
    << AccountNode(1, "g1", "ROOT", USD),
       AccountNode(2, "g2", "g1", pairA),
       AccountNode(3, "g3", "g1", pairB) >>

\* Commodities declared once, twice, or not at all, and referenced by two
\* accounts and a transaction.
CommodityTrees ==
    { [commodities |-> [i \in DOMAIN cs |-> CommodityNode(cs[i])],
       accounts |-> ThreeAccounts(pairA, pairB),
       transactions |-> ts] :
        cs \in SeqsUpTo(Pairs, MaxCommodities), pairA \in Pairs, pairB \in Pairs,
        ts \in {<<>>} \cup {<<[space |-> c[1], id |-> c[2], splits |-> <<>>]>> : c \in Pairs} }

\* The account guids of the splits of the transactions of a document: posted
\* against two accounts, or one transaction with splits against an account
\* the document does not declare.
SplitGuids ==
    SeqsUpTo(SeqsUpTo({"g2", "g3"}, MaxSplits), MaxTransactions) \cup
    { <<s>> : s \in SeqsUpTo({"g2", UnknownGuid}, MaxSplits) }

TransactionTrees ==
    { [commodities |-> <<CommodityNode(USD)>>,
       accounts |-> ThreeAccounts(USD, USD),
       transactions |-> [i \in DOMAIN ts |->
                            [space |-> USD[1], id |-> USD[2],
                             splits |-> [j \in DOMAIN ts[i] |-> [account |-> ts[i][j]]]]]] :
        ts \in SplitGuids }

Init ==
    /\ \/ tree \in LinkTrees
       \/ tree \in TreeTrees
       \/ tree \in CommodityTrees
       \/ tree \in TransactionTrees
    /\ book = NotCalled
    /\ gen = NotCalled
    /\ found = NotCalled
    /\ NumIdle
    /\ SlotsIdle

\* parse: the Book, or the error raised
Parse ==
    /\ book.k = "none"
    /\ \E order \in Perms({tree.accounts[i].guid : i \in DOMAIN tree.accounts}) :
           book' = _book_from_tree(tree, order)
    /\ UNCHANGED <<numstring, number, slottree, slots, tree, gen, found>>

\* The accounts a holder of the Book can get at.
BookAccounts ==
    {book.accountdict[g] : g \in DOMAIN book.accountdict} \cup
    (IF book.root_account = None THEN {} ELSE {book.root_account})

\* account.walk(), book.walk()
Walk ==
    /\ book.k = "ok"
    /\ gen.k = "none"
    /\ found.k = "none"
    /\ \E a \in BookAccounts : gen' = NewGenerator(a)
    /\ UNCHANGED <<numstring, number, slottree, slots, tree, book, found>>

\* next(generator)
Resume ==
    /\ gen.k \in {"created", "suspended"}
    /\ Len(gen.yielded) < MaxYield
    /\ gen' = GenNext(book.account, gen)
    /\ UNCHANGED <<numstring, number, slottree, slots, tree, book, found>>

\* What a caller can make of the list it got with account acc: reversed, its
\* first element removed (del children[0], as with os.walk), acc added.
Changed(l, acc) ==
    ({Reverse(l)} \cup {RemoveAt(l, i) : i \in DOMAIN l \cap {1}}
        \cup {Append(l, acc)}) \ {l}

\* The caller changes the children list of the triple it was handed.
CallerModify ==
    /\ gen.k = "suspended"
    /\ gen.mods < MaxMods
    /\ \E l \in Changed(ChildrenList(book.account, gen), gen.acc) :
           IF gen.alias = None
           THEN /\ gen' = [gen EXCEPT !.children = l, !.mods = @ + 1]
                /\ UNCHANGED book
           ELSE /\ gen' = [gen EXCEPT !.mods = @ + 1]
                /\ book' = [book EXCEPT !.account[gen.alias].children = l]
    /\ UNCHANGED <<numstring, number, slottree, slots, tree, found>>

SearchNames == {"Assets", "Income", "Equity"}

\* book.find_account(name)
FindAccount ==
    /\ book.k = "ok"
    /\ gen.k = "none"
    /\ found.k = "none"
    /\ \E name \in SearchNames : found' = find_account(book, name)
    /\ UNCHANGED <<numstring, number, slottree, slots, tree, book, gen>>

Next == Parse \/ Walk \/ Resume \/ CallerModify \/ FindAccount

Spec == Init /\ [][Next]_vars

(***************************************************************************)
(* What the document declares, read off the nodes.                         *)
(***************************************************************************)
Nodes == tree.accounts

Occurrences(l, x) == Cardinality({i \in DOMAIN l : l[i] = x})

Ascending(l) == \A i, j \in DOMAIN l : i < j => l[i] < l[j]

NoDuplicates(l) == \A i, j \in DOMAIN l : l[i] = l[j] => i = j

IndexOf(l, x) == CHOOSE i \in DOMAIN l : l[i] = x

Declared(g) == \E i \in DOMAIN Nodes : Nodes[i].guid = g

\* The account a guid names: the one built from the last node carrying it.
LastWithGuid(g) ==
    CHOOSE i \in DOMAIN Nodes :
        Nodes[i].guid = g /\ \A j \in DOMAIN Nodes : j > i => Nodes[j].guid # g

\* The accounts of the account table.
TableAccounts == {LastWithGuid(Nodes[i].guid) : i \in DOMAIN Nodes}

CommodityDeclared(pair) ==
    \E i \in DOMAIN tree.commodities : CommodityNode(pair) = tree.commodities[i]

LastDeclared(pair) ==
    CHOOSE i \in DOMAIN tree.commodities :
        /\ tree.commodities[i] = CommodityNode(pair)
        /\ \A j \in DOMAIN tree.commodities :
               j > i => tree.commodities[j] # CommodityNode(pair)

\* Every reference of the document resolves.
AllResolve ==
    /\ \A i \in DOMAIN Nodes :
           Nodes[i].type # "ROOT" =>
               Declared(Nodes[i].parent) /\ CommodityDeclared(<<Nodes[i].space, Nodes[i].id>>)
    /\ \A t \in DOMAIN tree.transactions :
           /\ CommodityDeclared(<<tree.transactions[t].space, tree.transactions[t].id>>)
           /\ \A j \in DOMAIN tree.transactions[t].splits :
                  Declared(tree.transactions[t].splits[j].account)

(***************************************************************************)
(* The account graph of the Book.                                          *)
(***************************************************************************)
RECURSIVE Closure(_, _)
Closure(S, fuel) ==
    LET S2 == S \cup UNION {Range(book.account[a].children) : a \in S}
    IN  IF S2 = S \/ fuel = 0 THEN S ELSE Closure(S2, fuel - 1)

\* a and the accounts below it
Subtree(a) == Closure({a}, Len(book.account))

RECURSIVE ClimbsTo(_, _, _)
ClimbsTo(a, top, fuel) ==
    IF a = top THEN TRUE
    ELSE IF book.account[a].parent = None \/ fuel = 0 THEN FALSE
    ELSE ClimbsTo(book.account[a].parent, top, fuel - 1)

ReachesRoot(a) ==
    book.root_account # None /\ ClimbsTo(a, book.root_account, Len(book.account))

RECURSIVE DepthOf(_, _)
DepthOf(a, fuel) ==
    IF book.account[a].parent = None \/ fuel = 0 THEN 0
    ELSE 1 + DepthOf(book.account[a].parent, fuel - 1)

Depth(a) == DepthOf(a, Len(book.account))

IsAncestor(x, y) ==
    x # y /\ ClimbsTo(y, x, Len(book.account))

\* The parent links form a tree under the root account.
RootedTree == book.k = "ok" /\ \A a \in TableAccounts : ReachesRoot(a)

(***************************************************************************)
(* The claims about _book_from_tree.                                       *)
(***************************************************************************)
\* C2: when every non-ROOT account's parent id names an account of the
\* document, in any document order, _book_from_tree returns, and every
\* non-ROOT account A has A.parent equal to the account its parent id names,
\* and occurs exactly once in that parent's children and in no other list.
C2_ParentLinks ==
    /\ (book.k # "none" /\ AllResolve) => book.k = "ok"
    /\ book.k = "ok" =>
           \A a \in TableAccounts :
               Nodes[a].type # "ROOT" =>
                   LET p == LastWithGuid(Nodes[a].parent)
                   IN  /\ book.account[a].parent = p
                       /\ Occurrences(book.account[p].children, a) = 1
                       /\ \A q \in DOMAIN book.account :
                              q # p => Occurrences(book.account[q].children, a) = 0

\* An account declared before its parent, itself declared before the root,
\* has been linked.
C2_Witness ==
    /\ book.k = "ok"
    /\ Len(Nodes) = 3
    /\ Nodes[3].type = "ROOT"
    /\ Nodes[2].type # "ROOT" /\ Nodes[2].parent = Nodes[3].guid
    /\ Nodes[1].type # "ROOT" /\ Nodes[1].parent = Nodes[2].guid
    /\ Cardinality({Nodes[i].guid : i \in 1..3}) = 3
    /\ book.account[2].children = <<1>>

\* The splits of the document in document order: split j of transaction t is
\* the SplitId(t, j)-th split built.
RECURSIVE SplitsBefore(_)
SplitsBefore(t) ==
    IF t = 1 THEN 0 ELSE SplitsBefore(t - 1) + Len(tree.transactions[t - 1].splits)

SplitId(t, j) == SplitsBefore(t) + j

\* C3: after a successful parse every split S of transaction T posted against
\* guid G has S.transaction = T and S.account the account of guid G, is once
\* in T.splits and once in that account's splits; T.splits is in document
\* order and an account's splits are in the order of the document.
C3_SplitsCrossRegistered ==
    book.k = "ok" =>
        /\ book.transactions = [t \in DOMAIN tree.transactions |-> t]
        /\ \A t \in DOMAIN tree.transactions :
               /\ book.transaction[t].splits =
                      [j \in DOMAIN tree.transactions[t].splits |-> SplitId(t, j)]
               /\ \A j \in DOMAIN tree.transactions[t].splits :
                      LET s == SplitId(t, j)
                          a == LastWithGuid(tree.transactions[t].splits[j].account)
                      IN  /\ book.split[s].transaction = t
                          /\ book.split[s].account = a
                          /\ Occurrences(book.transaction[t].splits, s) = 1
                          /\ Occurrences(book.account[a].splits, s) = 1
                          /\ \A b \in DOMAIN book.account :
                                 b # a => Occurrences(book.account[b].splits, s) = 0
                          /\ \A u \in DOMAIN book.transaction :
                                 u # t => Occurrences(book.transaction[u].splits, s) = 0
        /\ \A a \in DOMAIN book.account : Ascending(book.account[a].splits)

\* Two transactions: the first posts against both accounts, the second
\* against the first account again.
C3_Witness ==
    /\ book.k = "ok"
    /\ Len(tree.transactions) = 2
    /\ Len(tree.transactions[1].splits) = 2
    /\ tree.transactions[1].splits[1].account = "g3"
    /\ tree.transactions[1].splits[2].account = "g2"
    /\ Len(tree.transactions[2].splits) >= 1
    /\ tree.transactions[2].splits[1].account = "g3"
    /\ book.account[3].splits = <<1, 3>>

\* C4: after a successful parse, accounts and transaction currencies that
\* reference the same (namespace, symbol) hold the same Commodity object, the
\* last one declared with that pair; Book.commodities holds every declared
\* commodity, in document order, duplicates included.
C4_CommoditiesShared ==
    book.k = "ok" =>
        /\ book.commodities = [i \in DOMAIN tree.commodities |-> i]
        /\ \A i \in DOMAIN tree.commodities :
               book.commodity[i] = [name |-> tree.commodities[i].id,
                                    space |-> tree.commodities[i].space]
        /\ \A a \in DOMAIN book.account :
               Nodes[a].type # "ROOT" =>
                   book.account[a].commodity = LastDeclared(<<Nodes[a].space, Nodes[a].id>>)
        /\ \A t \in DOMAIN book.transaction :
               book.transaction[t].currency =
                   LastDeclared(<<tree.transactions[t].space, tree.transactions[t].id>>)
        /\ \A a, b \in DOMAIN book.account :
               (/\ Nodes[a].type # "ROOT" /\ Nodes[b].type # "ROOT"
                /\ Nodes[a].space = Nodes[b].space /\ Nodes[a].id = Nodes[b].id)
                   => book.account[a].commodity = book.account[b].commodity

\* One pair declared twice and referenced by two accounts and a transaction.
C4_Witness ==
    /\ book.k = "ok"
    /\ Len(tree.commodities) = 2
    /\ tree.commodities[1] = tree.commodities[2]
    /\ Len(tree.transactions) = 1
    /\ book.account[2].commodity = 2
    /\ book.account[3].commodity = 2
    /\ book.transaction[1].currency = 2

\* The document declares one ROOT account, no guid twice, and no cycle of
\* parent ids.
RECURSIVE DeclaredClimbs(_, _)
DeclaredClimbs(i, fuel) ==
    IF Nodes[i].type = "ROOT" THEN TRUE
    ELSE IF fuel = 0 \/ ~Declared(Nodes[i].parent) THEN FALSE
    ELSE DeclaredClimbs(LastWithGuid(Nodes[i].parent), fuel - 1)

OneRoot == Cardinality({i \in DOMAIN Nodes : Nodes[i].type = "ROOT"}) = 1

DeclaredAcyclic == \A a \in TableAccounts : DeclaredClimbs(a, Len(Nodes))

DistinctGuids == \A i, j \in DOMAIN Nodes : Nodes[i].guid = Nodes[j].guid => i = j

WellFormedDocument == OneRoot /\ DeclaredAcyclic /\ DistinctGuids

\* C8: after a successful parse the children list of every account lists
\* its children in the order of their nodes in the document, whatever order
\* the linking pass iterates the account table in.  (Stated for the
\* well-formed documents, where every account is one of the Book.)
C8_ChildrenInDocumentOrder ==
    (book.k = "ok" /\ WellFormedDocument) =>
        \A a \in DOMAIN book.account : Ascending(book.account[a].children)

(***************************************************************************)
(* The claims about walk and find_account.                                 *)
(***************************************************************************)
\* The caller has left the lists it was handed alone.
Unmodified == gen.k # "none" /\ gen.mods = 0

\* C6: Account.walk from an account X of a well-formed tree, the caller not
\* changing the yielded lists, terminates and yields one triple for every
\* account of X's subtree and for no other: X first, an account before its
\* descendants, depth k before depth k + 1, siblings in the order of their
\* parent's children list.
C6_WalkBreadthFirst ==
    (RootedTree /\ Unmodified) =>
        LET y == gen.yielded
        IN  /\ NoDuplicates(y)
            /\ Range(y) \subseteq Subtree(gen.self)
            /\ y # <<>> => y[1] = gen.self
            /\ \A i, j \in DOMAIN y :
                   i < j =>
                       /\ Depth(y[i]) <= Depth(y[j])
                       /\ ~IsAncestor(y[j], y[i])
                       /\ (/\ y[i] # gen.self /\ y[j] # gen.self
                           /\ book.account[y[i]].parent = book.account[y[j]].parent)
                              => IndexOf(book.account[book.account[y[i]].parent].children, y[i])
                                   < IndexOf(book.account[book.account[y[i]].parent].children, y[j])
            /\ gen.k = "suspended" =>
                   /\ gen.acc = y[Len(y)]
                   /\ gen.alias = None
                   /\ gen.children = book.account[gen.acc].children
            /\ gen.k # "done" => Len(y) < MaxYield
            /\ gen.k = "done" => Range(y) = Subtree(gen.self)

\* A walk from the root that ended: two accounts of depth 1, then a child of
\* the first of them.
C6_Witness ==
    /\ RootedTree
    /\ Unmodified
    /\ gen.k = "done"
    /\ gen.self = book.root_account
    /\ Len(gen.yielded) = 4
    /\ Depth(gen.yielded[2]) = 1
    /\ Depth(gen.yielded[3]) = 1
    /\ book.account[gen.yielded[4]].parent = gen.yielded[2]

RECURSIVE Flatten(_)
Flatten(ls) == IF ls = <<>> THEN <<>> ELSE Head(ls) \o Flatten(Tail(ls))

\* Level after level: the accounts of a level, then those of the next.
RECURSIVE Levels(_, _)
Levels(level, fuel) ==
    IF level = <<>> \/ fuel = 0 THEN <<>>
    ELSE level \o Levels(Flatten([i \in DOMAIN level |-> book.account[level[i]].children]),
                         fuel - 1)

BreadthFirst(a) == Levels(<<a>>, Len(book.account))

\* C7: find_account(name) returns the first account, in Book.walk() order
\* (breadth first from the root), whose name is the name given, None when no
\* account under the root has it, and never an account of another name.
C7_FindFirstInWalkOrder ==
    /\ (found.k # "none" /\ book.root_account # None) => found.k = "ok"
    /\ found.k = "ok" =>
           LET order == BreadthFirst(book.root_account)
               hits == {i \in DOMAIN order : book.account[order[i]].name = found.name}
           IN  /\ hits = {} => found.value = None
               /\ hits # {} =>
                      /\ found.value = order[CHOOSE i \in hits : \A j \in hits : i <= j]
                      /\ book.account[found.value].name = found.name

\* The name is carried by two accounts under the root; the one found is
\* not the root and comes first in the walk.
C7_Witness ==
    /\ found.k = "ok"
    /\ found.value # None
    /\ found.value # book.root_account
    /\ \E b \in Subtree(book.root_account) :
           /\ b # found.value
           /\ book.account[b].name = found.name
           /\ Depth(b) > Depth(found.value)

\* C9: while a caller consumes Account.walk, whatever it does to the children
\* list of a yielded triple between two steps of the generator leaves every
\* account's own children list and parent link as they were.
C9_WalkLeavesTreeAlone ==
    [][gen.k # "none" => book'.account = book.account]_vars

\* The caller changed a list it was handed and the walk went on to its end.
C9_Witness ==
    /\ gen.k = "done"
    /\ gen.mods > 0
    /\ Range(gen.yielded) # Subtree(gen.self)

C10_Conclusion ==
    /\ \A a \in TableAccounts : ReachesRoot(a)
    /\ Unmodified => NoDuplicates(gen.yielded)
    /\ (Unmodified /\ gen.k # "done") => Len(gen.yielded) < MaxYield
    /\ (Unmodified /\ gen.k = "done" /\ gen.self = book.root_account) =>
           /\ Range(gen.yielded) = TableAccounts
           /\ Len(gen.yielded) = Cardinality(TableAccounts)

\* C10 as stated: after any successful parse of a document whose non-ROOT
\* accounts declare parent ids that resolve, following .parent from any
\* account reaches Book.root_account, Book.walk() visits every account of the
\* table exactly once and Account.walk terminates from every account.
C10_RootedAfterParse ==
    book.k = "ok" => C10_Conclusion

\* C10 amended: the same, for the documents that moreover declare exactly one
\* ROOT account and no cycle of parent ids.
C10_RootedWhenDeclaredSo ==
    (book.k = "ok" /\ OneRoot /\ DeclaredAcyclic) => C10_Conclusion

\* Book.walk() ended on a document whose accounts are declared child first:
\* an account, its parent, the root.
C10_Witness ==
    /\ book.k = "ok" /\ OneRoot /\ DeclaredAcyclic
    /\ Len(Nodes) >= 3
    /\ Nodes[1].parent = Nodes[2].guid
    /\ Nodes[2].parent = Nodes[3].guid
    /\ Nodes[3].type = "ROOT"
    /\ Unmodified
    /\ gen.k = "done"
    /\ gen.self = book.root_account
    /\ gen.yielded = <<3, 2, 1>>

====
